---- MODULE Spec2Model ----
(***************************************************************************)
(* Transfer orchestration engine of downloader-lib (class Downloader):     *)
(* the lifecycle state, the pause/cancel flags, the worker thread with the *)
(* transport callbacks, and the control calls, each atomic access of the   *)
(* C++ code being one step.  Bytes are counted in chunks.                  *)
(***************************************************************************)
EXTENDS Integers, Sequences, FiniteSets, TLC

\* ---------------------------------------------------------------- bounds
\* accepted startDownload() calls in one behaviour
MaxAttempts == 1
\* chunks in the body of one request
MaxBody == 1
\* control calls in one behaviour after the first startDownload():
\* pause(), resume(), cancel() and accepted startDownload() calls
MaxCalls == 2
\* accepted startDownload() calls after the first, where one caller is followed
MaxRestarts == 1
\* addObserver()/removeObserver() calls made after the two registrations
\* that set up the registry
MaxRegistry == 3
\* events other than the terminal one that an attempt raises when the
\* registry is followed call by call
MaxEvents == 2

\* ------------------------------------------------------------- constants
\* first HTTP response code treated as an error (httpCode >= 400)
HttpErrorMin == 400

Threads == {"t1", "t2"}
\* startDownload() is not marked thread-safe: one owner thread calls it
Owner == "t1"
Observers == {"o1", "o2"}
\* the null pointer handed to addObserver()/removeObserver()
NullObserver == "null"
\* record of an observer no call has registered
Unregistered == [since |-> 0, adds |-> 0, removes |-> 0, touched |-> FALSE]
\* the DownloadStats of a thread that is not inside getStats()
NoStats == [state |-> "IDLE", downloadedBytes |-> 0, totalBytes |-> 0,
            percent |-> 0, url |-> 0]
HttpCodes == {200, 404}

DownloadState ==
    {"IDLE", "DOWNLOADING", "PAUSED", "COMPLETED", "CANCELLED", "ERROR"}
CurlResult ==
    {"OK", "ABORTED_BY_CALLBACK", "NETWORK_ERROR", "RANGE_NOT_SATISFIED",
     "OTHER_ERROR"}
\* value of the local `result` while perform() has not returned
NoResult == "NONE"
Terminal == {"COMPLETED", "CANCELLED", "ERROR"}
TerminalEvents == {"completed", "cancelled", "error"}

VARIABLES
    state,            \* state_
    pauseRequested,   \* pauseRequested_
    cancelRequested,  \* cancelRequested_
    downloadedBytes,  \* downloadedBytes_
    totalBytes,       \* totalBytes_
    url,              \* url_ (outputPath_ is the one destination file)
    observers,        \* observers_
    observerMutex,    \* owner of observerMutex_: "free" or "worker"
    cursor,           \* next index of the running notify loop (0: no loop)
    pauseMutex,       \* owner of pauseMutex_: "free" or "worker"
    joinable,         \* workerThread_.joinable()
    wpc,              \* position of the worker thread
    resumeFrom,       \* local of doDownload
    result,           \* local of doDownload: value of curl->perform()
    httpCode,         \* curl->getHttpResponseCode()
    errMsg,           \* argument of the pending notifyError: <<text, code quoted>>
    tLen,             \* transport: chunks in the body of this request
    tNow,             \* transport: chunks handed to the write callback (dlnow)
    tProg,            \* transport: progress callback made since the last chunk
    dltotal,          \* argument of the running progress callback
    fileSize,         \* length of the destination file
    cpc,              \* position of each control thread
    startRet,         \* value returned by the last startDownload()
    attempt,          \* number of accepted startDownload() calls
    calls,            \* number of control calls made after construction
    log,              \* events raised by the worker in this attempt
    received,         \* events each observer received in this attempt
    percent,          \* percent of the last progress event (-1: none, unknown)
    cancelIssued,     \* cancel() was called while this attempt was running
    cancelAtReturn,   \* cancelRequested_ at the return of perform()
    everCancel,       \* cancelRequested_ was set since start reset it
    lastTrans,        \* the last change of state_: <<from, to>>
    latePause,        \* a pause() won after the last data callback
    cycles,           \* resume() calls that won the CAS in this attempt
    lateChunks,       \* chunks written in this attempt with cancelRequested_ set
    performs,         \* curl->perform() calls made in this attempt
    stats,            \* per thread: the DownloadStats its getStats() is filling
    served,           \* observers the last notify loop called, in order
    regHist           \* per observer: calls made on the registry for it

registryVars == <<observerMutex, cursor, served, regHist>>
engineVars == <<state, pauseRequested, cancelRequested, downloadedBytes,
                totalBytes, url, observers, pauseMutex, joinable>>
workerVars == <<wpc, resumeFrom, result, httpCode, errMsg, tLen, tNow, tProg,
                dltotal, fileSize>>
controlVars == <<cpc, startRet, attempt, calls>>
historyVars == <<log, received, percent, cancelIssued, cancelAtReturn,
                 everCancel,
                 lastTrans, latePause, cycles, lateChunks, performs>>
vars == <<engineVars, workerVars, controlVars, historyVars, registryVars,
         stats>>

Range(s) == {s[i] : i \in 1..Len(s)}
Count(s, e) == Cardinality({i \in 1..Len(s) : s[i] = e})

StartPcs == {"start_join", "start_reset", "start_pause", "start_cancel",
             "start_launch"}

Init ==
    /\ state = "IDLE"
    /\ pauseRequested = FALSE
    /\ cancelRequested = FALSE
    /\ downloadedBytes = 0
    /\ totalBytes = 0
    /\ url = 0
    /\ observers = <<"o1", "o2">>
    /\ pauseMutex = "free"
    /\ joinable = FALSE
    /\ wpc = "none"
    /\ resumeFrom = 0
    /\ result = NoResult
    /\ httpCode = 0
    /\ errMsg = <<"none", 0>>
    /\ tLen = 0
    /\ tNow = 0
    /\ tProg = FALSE
    /\ dltotal = 0
    /\ fileSize = 0
    /\ cpc = [t \in Threads |-> "idle"]
    /\ startRet = "none"
    /\ attempt = 0
    /\ calls = 0
    /\ log = <<>>
    /\ received = [o \in Observers |-> <<>>]
    /\ percent = -1
    /\ cancelIssued = FALSE
    /\ cancelAtReturn = FALSE
    /\ everCancel = FALSE
    /\ lastTrans = <<"IDLE", "IDLE">>
    /\ latePause = FALSE
    /\ cycles = 0
    /\ lateChunks = 0
    /\ performs = 0
    /\ stats = [t \in Threads |-> NoStats]
    /\ observerMutex = "free"
    /\ cursor = 0
    /\ served = <<>>
    /\ regHist = [o \in Observers \cup {NullObserver} |->
                    IF o \in Range(observers)
                    THEN [since |-> CHOOSE i \in 1..Len(observers) :
                                      observers[i] = o,
                          adds |-> 1, removes |-> 0, touched |-> FALSE]
                    ELSE Unregistered]

\* ------------------------------------------------------------------------
\* state_.store(s) by the worker, and the record of the change
StoreState(s) ==
    /\ state' = s
    /\ lastTrans' = IF s # state THEN <<state, s>> ELSE lastTrans

\* notifyXxx: under observerMutex_, every registered observer gets the event
Deliver(ev) ==
    /\ log' = Append(log, ev)
    /\ received' = [o \in Observers |->
                      IF o \in Range(observers) THEN Append(received[o], ev)
                      ELSE received[o]]

Notify(ev) == Deliver(ev) /\ UNCHANGED percent

\* notifyProgress(downloaded, total, percent)
NotifyProgress(p) == Deliver("progress") /\ percent' = p

\* percent as the progress callback computes it (whole percents)
PercentOf(downloaded, total) ==
    IF total > 0 THEN (downloaded * 100) \div total ELSE -1

Goto(t, pc) == cpc' = [cpc EXCEPT ![t] = pc]

\* ------------------------------------------------------- startDownload()
\* the state check of startDownload(), at most n calls being accepted; an
\* accepted call after the first counts as a control call
startDownloadCheckWithin(t, n) ==
    /\ t = Owner
    /\ cpc[t] = "idle"
    /\ IF state \in {"DOWNLOADING", "PAUSED"}
       THEN /\ startRet' = "false"
            /\ UNCHANGED <<cpc, attempt, calls>>
       ELSE /\ attempt < n
            /\ attempt > 0 => calls < MaxCalls
            /\ attempt' = attempt + 1
            /\ calls' = IF attempt > 0 THEN calls + 1 ELSE calls
            /\ Goto(t, "start_join")
            /\ UNCHANGED startRet
    /\ UNCHANGED <<engineVars, registryVars, stats, workerVars, historyVars>>

\* variant: the flags are cleared before the state is examined
startDownloadCheck_ResetFirst(t) ==
    /\ t = Owner
    /\ cpc[t] = "idle"
    /\ pauseRequested' = FALSE
    /\ cancelRequested' = FALSE
    /\ IF state \in {"DOWNLOADING", "PAUSED"}
       THEN /\ startRet' = "false"
            /\ UNCHANGED <<cpc, attempt, calls>>
       ELSE /\ attempt < MaxAttempts
            /\ attempt > 0 => calls < MaxCalls
            /\ attempt' = attempt + 1
            /\ calls' = IF attempt > 0 THEN calls + 1 ELSE calls
            /\ Goto(t, "start_join")
            /\ UNCHANGED startRet
    /\ UNCHANGED <<state, downloadedBytes, totalBytes, url, observers,
                   registryVars, stats, pauseMutex, joinable, workerVars,
                   historyVars>>

startDownloadCheck(t) == startDownloadCheckWithin(t, MaxAttempts)

\* variant: the previous worker thread is not waited for
startDownloadJoin_NoWait(t) ==
    /\ cpc[t] = "start_join"
    /\ Goto(t, "start_reset")
    /\ UNCHANGED <<engineVars,
                   registryVars, stats, workerVars, startRet, attempt, calls,
                   historyVars>>

\* workerThread_.join(): waits for the previous worker to exit; its locals
\* and its transport handle are gone
startDownloadJoin(t) ==
    /\ cpc[t] = "start_join"
    /\ IF joinable
       THEN /\ wpc = "done"
            /\ wpc' = "none"
            /\ joinable' = FALSE
            /\ resumeFrom' = 0
            /\ result' = NoResult
            /\ httpCode' = 0
            /\ errMsg' = <<"none", 0>>
            /\ tLen' = 0
            /\ tNow' = 0
            /\ tProg' = FALSE
            /\ dltotal' = 0
       ELSE UNCHANGED <<wpc, joinable, resumeFrom, result, httpCode, errMsg,
                        tLen, tNow, tProg, dltotal>>
    /\ Goto(t, "start_reset")
    /\ UNCHANGED <<state, pauseRequested, cancelRequested, downloadedBytes,
                   totalBytes, url, observers,
                   registryVars, stats, pauseMutex, fileSize,
                   startRet, attempt, calls, historyVars>>

\* url_, outputPath_ and the counters are reset; the url of the k-th accepted
\* call is k (every call brings a new request)
startDownloadReset(t) ==
    /\ cpc[t] = "start_reset"
    /\ url' = attempt
    /\ downloadedBytes' = 0
    /\ totalBytes' = 0
    /\ Goto(t, "start_pause")
    /\ UNCHANGED <<state, pauseRequested, cancelRequested, observers,
                   registryVars, stats,
                   pauseMutex, joinable, workerVars, startRet, attempt, calls,
                   historyVars>>

startDownloadPause(t) ==
    /\ cpc[t] = "start_pause"
    /\ pauseRequested' = FALSE
    /\ Goto(t, "start_cancel")
    /\ UNCHANGED <<state, cancelRequested, downloadedBytes, totalBytes, url,
                   observers,
                   registryVars, stats,
                   pauseMutex, joinable, workerVars, startRet,
                   attempt, calls, historyVars>>

startDownloadCancel(t) ==
    /\ cpc[t] = "start_cancel"
    /\ cancelRequested' = FALSE
    /\ everCancel' = FALSE
    /\ Goto(t, "start_launch")
    /\ UNCHANGED <<state, pauseRequested, downloadedBytes, totalBytes, url,
                   observers,
                   registryVars, stats,
                   pauseMutex, joinable, workerVars, startRet,
                   attempt, calls, log, received, percent,
                   cancelIssued,
                   cancelAtReturn, lastTrans, latePause, cycles, lateChunks,
                   performs>>

\* state_ becomes DOWNLOADING and the worker thread is launched; nothing can
\* tell a worker that is not launched yet from one that has not taken a step
startDownloadLaunch(t) ==
    /\ cpc[t] = "start_launch"
    /\ StoreState("DOWNLOADING")
    /\ log' = <<>>
    /\ received' = [o \in Observers |-> <<>>]
    /\ percent' = -1
    /\ cancelIssued' = FALSE
    /\ cancelAtReturn' = FALSE
    /\ latePause' = FALSE
    /\ cycles' = 0
    /\ lateChunks' = 0
    /\ performs' = 0
    /\ wpc' = "begin"
    /\ joinable' = TRUE
    /\ startRet' = "true"
    /\ Goto(t, "idle")
    /\ UNCHANGED <<pauseRequested, cancelRequested, downloadedBytes,
                   totalBytes, url, observers,
                   registryVars, stats, pauseMutex, resumeFrom, result,
                   httpCode, errMsg, tLen, tNow, tProg, dltotal, fileSize,
                   attempt, calls, everCancel>>

startDownload(t) ==
    \/ startDownloadCheck(t)
    \/ startDownloadJoin(t)
    \/ startDownloadReset(t)
    \/ startDownloadPause(t)
    \/ startDownloadCancel(t)
    \/ startDownloadLaunch(t)

\* ---------------------------------------------------------------- pause()
\* the transport will invoke no further data callback in this attempt
Drained ==
    \/ wpc \in {"perform", "prog_cancel", "prog_update"} /\ tNow = tLen
    \/ wpc \in {"exit_cancel", "exit_paused", "final_progress",
                "set_completed", "set_cancelled", "set_error"}
          /\ result # NoResult

\* variant: PAUSED is stored whatever the state is
pauseCas_Unchecked(t) ==
    /\ cpc[t] = "idle"
    /\ calls < MaxCalls
    /\ calls' = calls + 1
    /\ StoreState("PAUSED")
    /\ latePause' = (latePause \/ Drained)
    /\ Goto(t, "pause_store")
    /\ UNCHANGED <<pauseRequested, cancelRequested, downloadedBytes,
                   totalBytes, url, observers,
                   registryVars, stats, pauseMutex, joinable,
                   workerVars, startRet, attempt, log, received, percent,
                   cancelIssued, cancelAtReturn, everCancel,
                   cycles, lateChunks,
                   performs>>

pauseCas(t) ==
    /\ cpc[t] = "idle"
    /\ calls < MaxCalls
    /\ calls' = calls + 1
    /\ IF state = "DOWNLOADING"
       THEN /\ StoreState("PAUSED")
            /\ latePause' = (latePause \/ Drained)
            /\ Goto(t, "pause_store")
       ELSE UNCHANGED <<state, lastTrans, latePause, cpc>>
    /\ UNCHANGED <<pauseRequested, cancelRequested, downloadedBytes,
                   totalBytes, url, observers,
                   registryVars, stats, pauseMutex, joinable,
                   workerVars, startRet, attempt, log, received, percent,
                   cancelIssued,
                   cancelAtReturn, everCancel, cycles, lateChunks,
                   performs>>

\* variant: pause() also clears cancelRequested_
pauseStore_ClearsCancel(t) ==
    /\ cpc[t] = "pause_store"
    /\ pauseRequested' = TRUE
    /\ cancelRequested' = FALSE
    /\ Goto(t, "idle")
    /\ UNCHANGED <<state, downloadedBytes, totalBytes, url, observers,
                   registryVars, stats, pauseMutex, joinable, workerVars,
                   startRet, attempt, calls, historyVars>>

pauseStore(t) ==
    /\ cpc[t] = "pause_store"
    /\ pauseRequested' = TRUE
    /\ Goto(t, "idle")
    /\ UNCHANGED <<state, cancelRequested, downloadedBytes, totalBytes, url,
                   observers,
                   registryVars, stats,
                   pauseMutex, joinable, workerVars, startRet,
                   attempt, calls, historyVars>>

pause(t) == pauseCas(t) \/ pauseStore(t)

\* --------------------------------------------------------------- resume()
resumeCas(t) ==
    /\ cpc[t] = "idle"
    /\ calls < MaxCalls
    /\ calls' = calls + 1
    /\ IF state = "PAUSED"
       THEN /\ StoreState("DOWNLOADING")
            /\ cycles' = cycles + 1
            /\ Goto(t, "resume_store")
       ELSE UNCHANGED <<state, lastTrans, cycles, cpc>>
    /\ UNCHANGED <<pauseRequested, cancelRequested, downloadedBytes,
                   totalBytes, url, observers,
                   registryVars, stats, pauseMutex, joinable,
                   workerVars, startRet, attempt, log, received, percent,
                   cancelIssued,
                   cancelAtReturn, everCancel, latePause, lateChunks,
                   performs>>

resumeStore(t) ==
    /\ cpc[t] = "resume_store"
    /\ pauseRequested' = FALSE
    /\ Goto(t, "resume_notify")
    /\ UNCHANGED <<state, cancelRequested, downloadedBytes, totalBytes, url,
                   observers,
                   registryVars, stats,
                   pauseMutex, joinable, workerVars, startRet,
                   attempt, calls, historyVars>>

\* pauseCv_.notify_all(): wakes the worker only if it is blocked in the wait
NotifyAll == wpc' = IF wpc = "wait_blocked" THEN "wait_woken" ELSE wpc

\* variant: resume() issues a new request on the transport
resumeNotify_NewRequest(t) ==
    /\ cpc[t] = "resume_notify"
    /\ NotifyAll
    /\ performs' = performs + 1
    /\ Goto(t, "idle")
    /\ UNCHANGED <<engineVars, registryVars, stats, resumeFrom, result,
                   httpCode, errMsg, tLen, tNow, tProg, dltotal, fileSize,
                   startRet, attempt, calls, log, received, percent,
                   cancelIssued, cancelAtReturn, everCancel, lastTrans,
                   latePause, cycles, lateChunks>>

resumeNotify(t) ==
    /\ cpc[t] = "resume_notify"
    /\ NotifyAll
    /\ Goto(t, "idle")
    /\ UNCHANGED <<engineVars,
                   registryVars, stats,
                   resumeFrom, result, httpCode, errMsg, tLen,
                   tNow, tProg, dltotal, fileSize, startRet, attempt, calls,
                   historyVars>>

resume(t) == resumeCas(t) \/ resumeStore(t) \/ resumeNotify(t)

\* --------------------------------------------------------------- cancel()
StartReturned == cpc[Owner] \notin StartPcs

cancelStoreCancel(t) ==
    /\ cpc[t] = "idle"
    /\ calls < MaxCalls
    /\ calls' = calls + 1
    /\ cancelRequested' = TRUE
    /\ everCancel' = TRUE
    /\ cancelIssued' = (cancelIssued \/
                        (state \in {"DOWNLOADING", "PAUSED"} /\ StartReturned))
    /\ Goto(t, "cancel_pause")
    /\ UNCHANGED <<state, pauseRequested, downloadedBytes, totalBytes, url,
                   observers,
                   registryVars, stats,
                   pauseMutex, joinable, workerVars, startRet,
                   attempt, log, received, percent, cancelAtReturn, lastTrans,
                   latePause, cycles, lateChunks,
                   performs>>

\* variant: cancel() leaves pauseRequested_ as it is
cancelStorePause_Keeps(t) ==
    /\ cpc[t] = "cancel_pause"
    /\ Goto(t, "cancel_lock")
    /\ UNCHANGED <<engineVars, registryVars, stats, workerVars, startRet,
                   attempt, calls, historyVars>>

cancelStorePause(t) ==
    /\ cpc[t] = "cancel_pause"
    /\ pauseRequested' = FALSE
    /\ Goto(t, "cancel_lock")
    /\ UNCHANGED <<state, cancelRequested, downloadedBytes, totalBytes, url,
                   observers,
                   registryVars, stats,
                   pauseMutex, joinable, workerVars, startRet,
                   attempt, calls, historyVars>>

\* variant: cancel() goes on only when the worker has exited
cancelLock_WaitsForWorker(t) ==
    /\ cpc[t] = "cancel_lock"
    /\ pauseMutex = "free"
    /\ wpc \in {"none", "done"}
    /\ Goto(t, "cancel_notify")
    /\ UNCHANGED <<engineVars,
                   registryVars, stats, workerVars, startRet, attempt, calls,
                   historyVars>>

\* the empty critical section on pauseMutex_: taken and released at once
cancelLock(t) ==
    /\ cpc[t] = "cancel_lock"
    /\ pauseMutex = "free"
    /\ Goto(t, "cancel_notify")
    /\ UNCHANGED <<engineVars,
                   registryVars, stats, workerVars, startRet, attempt, calls,
                   historyVars>>

\* variant: cancel() returns without notify_all()
cancelNotify_NoWake(t) ==
    /\ cpc[t] = "cancel_notify"
    /\ Goto(t, "idle")
    /\ UNCHANGED <<engineVars,
                   registryVars, stats, workerVars, startRet, attempt, calls,
                   historyVars>>

cancelNotify(t) ==
    /\ cpc[t] = "cancel_notify"
    /\ NotifyAll
    /\ Goto(t, "idle")
    /\ UNCHANGED <<engineVars,
                   registryVars, stats,
                   resumeFrom, result, httpCode, errMsg, tLen,
                   tNow, tProg, dltotal, fileSize, startRet, attempt, calls,
                   historyVars>>

cancel(t) ==
    \/ cancelStoreCancel(t)
    \/ cancelStorePause(t)
    \/ cancelLock(t)
    \/ cancelNotify(t)

\* ------------------------------------------------------------------------
\* The worker thread.  Groups of variables a worker step leaves alone.
sharedRest == <<url, observers, registryVars, stats, joinable>>
flagVars == <<pauseRequested, cancelRequested>>
byteVars == <<downloadedBytes, totalBytes, fileSize>>
transportVars == <<tLen, tNow, tProg, dltotal>>
outcomeVars == <<resumeFrom, result, httpCode, errMsg>>
eventVars == <<log, received, percent>>
monitorVars == <<cancelIssued, cancelAtReturn, everCancel, latePause,
                 cycles, lateChunks,
                   performs>>

\* variant: the counter is not set to the size of the existing file
doDownloadBegin_NoOffset ==
    /\ wpc = "begin"
    /\ resumeFrom' = fileSize
    /\ downloadedBytes' = 0
    /\ wpc' = "open"
    /\ UNCHANGED <<state, flagVars, totalBytes, fileSize, sharedRest,
                   pauseMutex, result, httpCode, errMsg, transportVars,
                   controlVars, historyVars>>

\* doDownload: resume offset from the size of the existing file
doDownloadBegin ==
    /\ wpc = "begin"
    /\ resumeFrom' = fileSize
    /\ downloadedBytes' = fileSize
    /\ wpc' = "open"
    /\ UNCHANGED <<state, flagVars, totalBytes, fileSize, sharedRest,
                   pauseMutex, result, httpCode, errMsg, transportVars,
                   controlVars, historyVars>>

\* variant: the destination is always opened with trunc
doDownloadOpen_Truncates ==
    /\ wpc = "open"
    /\ \/ /\ fileSize' = 0
          /\ wpc' = "factory"
          /\ UNCHANGED errMsg
       \/ /\ errMsg' = <<"open", 0>>
          /\ wpc' = "set_error"
          /\ UNCHANGED fileSize
    /\ UNCHANGED <<state, flagVars, downloadedBytes, totalBytes, sharedRest,
                   pauseMutex, resumeFrom, result, httpCode, transportVars,
                   controlVars, historyVars>>

\* doDownload: open the output file (append when resuming, else truncate);
\* the open may fail
doDownloadOpen ==
    /\ wpc = "open"
    /\ \/ /\ fileSize' = IF resumeFrom > 0 THEN fileSize ELSE 0
          /\ wpc' = "factory"
          /\ UNCHANGED errMsg
       \/ /\ errMsg' = <<"open", 0>>
          /\ wpc' = "set_error"
          /\ UNCHANGED fileSize
    /\ UNCHANGED <<state, flagVars, downloadedBytes, totalBytes, sharedRest,
                   pauseMutex, resumeFrom, result, httpCode, transportVars,
                   controlVars, historyVars>>

\* doDownload: curlFactory_() yields a handle, yields none, or throws
\* (CurlHandle's constructor); the handle is configured and the transport
\* fixes the body it is going to send, of at most max chunks
doDownloadFactoryWithin(max) ==
    /\ wpc = "factory"
    /\ \/ /\ \E n \in 0..max : tLen' = n
          /\ tNow' = 0
          /\ tProg' = FALSE
          /\ performs' = performs + 1
          /\ wpc' = "perform"
          /\ UNCHANGED errMsg
       \/ /\ \E m \in {"factory", "exception"} : errMsg' = <<m, 0>>
          /\ wpc' = "set_error"
          /\ UNCHANGED <<tLen, tNow, tProg, performs>>
    /\ UNCHANGED <<state, flagVars, byteVars, sharedRest, pauseMutex,
                   resumeFrom, result, httpCode, dltotal, controlVars,
                   eventVars, cancelIssued, cancelAtReturn, everCancel,
                   lastTrans, latePause, cycles, lateChunks>>

doDownloadFactory == doDownloadFactoryWithin(MaxBody)

\* perform() returns r: the worker goes on to the result handling
PerformReturns(r) ==
    /\ result' = r
    /\ cancelAtReturn' = cancelRequested
    /\ wpc' = "exit_cancel"

\* the transport invokes the progress callback (dltotal unknown or known)
TransportProgress ==
    /\ wpc = "perform"
    /\ ~tProg
    /\ tProg' = TRUE
    /\ \E d \in {0, tLen} : dltotal' = d
    /\ wpc' = "prog_cancel"
    /\ UNCHANGED <<state, flagVars, byteVars, sharedRest, pauseMutex,
                   outcomeVars, tLen, tNow, controlVars, historyVars>>

\* the transport hands the next chunk to the write callback
TransportWrite ==
    /\ wpc = "perform"
    /\ tNow < tLen
    /\ wpc' = "write_cancel"
    /\ UNCHANGED <<state, flagVars, byteVars, sharedRest, pauseMutex,
                   outcomeVars, transportVars, controlVars, historyVars>>

\* the transport ends without a callback abort: OK once the body is
\* complete (with the status code of the response), a failure at any time
TransportReturn ==
    /\ wpc = "perform"
    /\ \E r \in CurlResult \ {"ABORTED_BY_CALLBACK"} :
          /\ r = "OK" => tNow = tLen
          /\ PerformReturns(r)
          /\ IF r = "OK" THEN \E c \in HttpCodes : httpCode' = c
             ELSE UNCHANGED httpCode
    /\ UNCHANGED <<state, flagVars, byteVars, sharedRest, pauseMutex,
                   resumeFrom, errMsg, transportVars, controlVars, eventVars,
                   cancelIssued, everCancel, lastTrans,
                   latePause, cycles, lateChunks,
                   performs>>

\* progress callback: the cancel check
progressCallbackCancel ==
    /\ wpc = "prog_cancel"
    /\ IF cancelRequested
       THEN PerformReturns("ABORTED_BY_CALLBACK")
       ELSE /\ wpc' = "prog_update"
            /\ UNCHANGED <<result, cancelAtReturn>>
    /\ UNCHANGED <<state, flagVars, byteVars, sharedRest, pauseMutex,
                   resumeFrom, httpCode, errMsg, transportVars, controlVars,
                   eventVars, cancelIssued, everCancel, lastTrans,
                   latePause, cycles, lateChunks,
                   performs>>

\* variant: the total is stored without the offset of the resumed file
progressCallbackUpdate_NoOffset ==
    /\ wpc = "prog_update"
    /\ totalBytes' = IF dltotal > 0 THEN dltotal ELSE totalBytes
    /\ NotifyProgress(PercentOf(downloadedBytes, totalBytes'))
    /\ wpc' = "perform"
    /\ UNCHANGED <<state, flagVars, downloadedBytes, fileSize, sharedRest,
                   pauseMutex, outcomeVars, transportVars, controlVars,
                   monitorVars, lastTrans>>

\* progress callback: the total is recomputed and the progress event raised
progressCallbackUpdate ==
    /\ wpc = "prog_update"
    /\ totalBytes' = IF dltotal > 0 THEN dltotal + (downloadedBytes - tNow)
                     ELSE totalBytes
    /\ NotifyProgress(PercentOf(downloadedBytes, totalBytes'))
    /\ wpc' = "perform"
    /\ UNCHANGED <<state, flagVars, downloadedBytes, fileSize, sharedRest,
                   pauseMutex, outcomeVars, transportVars, controlVars,
                   monitorVars, lastTrans>>

\* variant: the write callback does not look at cancelRequested_
writeCallbackCancel_NoCheck ==
    /\ wpc = "write_cancel"
    /\ wpc' = "write_pause"
    /\ UNCHANGED <<state, flagVars, byteVars, sharedRest, pauseMutex,
                   outcomeVars, transportVars, controlVars, historyVars>>

\* write callback: the cancel check
writeCallbackCancel ==
    /\ wpc = "write_cancel"
    /\ IF cancelRequested
       THEN PerformReturns("ABORTED_BY_CALLBACK")
       ELSE /\ wpc' = "write_pause"
            /\ UNCHANGED <<result, cancelAtReturn>>
    /\ UNCHANGED <<state, flagVars, byteVars, sharedRest, pauseMutex,
                   resumeFrom, httpCode, errMsg, transportVars, controlVars,
                   eventVars, cancelIssued, everCancel, lastTrans,
                   latePause, cycles, lateChunks,
                   performs>>

\* write callback: the pause check
writeCallbackPause ==
    /\ wpc = "write_pause"
    /\ wpc' = IF pauseRequested THEN "wait_lock" ELSE "write_file"
    /\ UNCHANGED <<state, flagVars, byteVars, sharedRest, pauseMutex,
                   outcomeVars, transportVars, controlVars, historyVars>>

\* write callback: the chunk is written and counted, or the write fails
writeCallbackWrite ==
    /\ wpc = "write_file"
    /\ \/ /\ fileSize' = fileSize + 1
          /\ downloadedBytes' = downloadedBytes + 1
          /\ tNow' = tNow + 1
          /\ tProg' = FALSE
          /\ lateChunks' = IF cancelRequested THEN lateChunks + 1
                           ELSE lateChunks
          /\ wpc' = "perform"
          /\ UNCHANGED <<result, cancelAtReturn>>
       \/ /\ PerformReturns("ABORTED_BY_CALLBACK")
          /\ UNCHANGED <<fileSize, downloadedBytes, tNow, tProg, lateChunks>>
    /\ UNCHANGED <<state, flagVars, totalBytes, sharedRest, pauseMutex,
                   resumeFrom, httpCode, errMsg, tLen, dltotal, controlVars,
                   eventVars, cancelIssued, everCancel, lastTrans, latePause,
                   cycles, performs>>

\* waitIfPaused: std::unique_lock lock(pauseMutex_)
waitIfPausedLock ==
    /\ wpc = "wait_lock"
    /\ pauseMutex = "free"
    /\ pauseMutex' = "worker"
    /\ wpc' = "wait_paused"
    /\ UNCHANGED <<state, flagVars, byteVars, sharedRest, outcomeVars,
                   transportVars, controlVars, historyVars>>

\* waitIfPaused: notifyPaused()
waitIfPausedNotify ==
    /\ wpc = "wait_paused"
    /\ Notify("paused")
    /\ wpc' = "wait_pred_pause"
    /\ UNCHANGED <<state, flagVars, byteVars, sharedRest, pauseMutex,
                   outcomeVars, transportVars, controlVars, monitorVars,
                   lastTrans>>

\* the wait predicate, first operand: !pauseRequested_
waitPredicatePause ==
    /\ wpc = "wait_pred_pause"
    /\ wpc' = IF ~pauseRequested THEN "wait_cancel" ELSE "wait_pred_cancel"
    /\ UNCHANGED <<state, flagVars, byteVars, sharedRest, pauseMutex,
                   outcomeVars, transportVars, controlVars, historyVars>>

\* the wait predicate, second operand: cancelRequested_
waitPredicateCancel ==
    /\ wpc = "wait_pred_cancel"
    /\ wpc' = IF cancelRequested THEN "wait_cancel" ELSE "wait_enter"
    /\ UNCHANGED <<state, flagVars, byteVars, sharedRest, pauseMutex,
                   outcomeVars, transportVars, controlVars, historyVars>>

\* the predicate was false: the wait releases the mutex and blocks
waitBlock ==
    /\ wpc = "wait_enter"
    /\ pauseMutex' = "free"
    /\ wpc' = "wait_blocked"
    /\ UNCHANGED <<state, flagVars, byteVars, sharedRest, outcomeVars,
                   transportVars, controlVars, historyVars>>

\* a condition variable may wake without a notification
waitSpuriousWakeup ==
    /\ wpc = "wait_blocked"
    /\ wpc' = "wait_woken"
    /\ UNCHANGED <<state, flagVars, byteVars, sharedRest, pauseMutex,
                   outcomeVars, transportVars, controlVars, historyVars>>

\* the woken wait takes the mutex again and re-evaluates the predicate
waitReacquire ==
    /\ wpc = "wait_woken"
    /\ pauseMutex = "free"
    /\ pauseMutex' = "worker"
    /\ wpc' = "wait_pred_pause"
    /\ UNCHANGED <<state, flagVars, byteVars, sharedRest, outcomeVars,
                   transportVars, controlVars, historyVars>>

\* waitIfPaused after the wait: cancelled (return false, the callback
\* aborts the transfer) or resumed
waitIfPausedCancel ==
    /\ wpc = "wait_cancel"
    /\ IF cancelRequested
       THEN /\ pauseMutex' = "free"
            /\ PerformReturns("ABORTED_BY_CALLBACK")
       ELSE /\ wpc' = "wait_resumed"
            /\ UNCHANGED <<pauseMutex, result, cancelAtReturn>>
    /\ UNCHANGED <<state, flagVars, byteVars, sharedRest, resumeFrom,
                   httpCode, errMsg, transportVars, controlVars, eventVars,
                   cancelIssued, everCancel, lastTrans,
                   latePause, cycles, lateChunks,
                   performs>>

\* variant: the chunk that waited is reported as written without being written
waitIfPausedResumed_DropsChunk ==
    /\ wpc = "wait_resumed"
    /\ Notify("resumed")
    /\ pauseMutex' = "free"
    /\ tNow' = tNow + 1
    /\ tProg' = FALSE
    /\ wpc' = "perform"
    /\ UNCHANGED <<state, flagVars, byteVars, sharedRest, outcomeVars, tLen,
                   dltotal, controlVars, monitorVars, lastTrans>>

\* waitIfPaused: notifyResumed(), return true
waitIfPausedResumed ==
    /\ wpc = "wait_resumed"
    /\ Notify("resumed")
    /\ pauseMutex' = "free"
    /\ wpc' = "write_file"
    /\ UNCHANGED <<state, flagVars, byteVars, sharedRest, outcomeVars,
                   transportVars, controlVars, monitorVars, lastTrans>>

\* ------------------------------------------------------------------------
\* doDownload, result handling: the cancel check after perform()
\* variant: the cancel check after perform() is skipped
resultCancelCheck_Skipped ==
    /\ wpc = "exit_cancel"
    /\ wpc' = "exit_paused"
    /\ UNCHANGED <<state, flagVars, byteVars, sharedRest, pauseMutex,
                   outcomeVars, transportVars, controlVars, historyVars>>

resultCancelCheck ==
    /\ wpc = "exit_cancel"
    /\ wpc' = IF cancelRequested THEN "set_cancelled" ELSE "exit_paused"
    /\ UNCHANGED <<state, flagVars, byteVars, sharedRest, pauseMutex,
                   outcomeVars, transportVars, controlVars, historyVars>>

\* the message of the error branch taken for result r and status code c
ErrorOf(r, c) ==
    CASE r = "OK" /\ c >= HttpErrorMin -> <<"http", c>>
      [] r = "ABORTED_BY_CALLBACK" -> <<"aborted", 0>>
      [] r = "NETWORK_ERROR" -> <<"network", 0>>
      [] r = "RANGE_NOT_SATISFIED" -> <<"range", 0>>
      [] OTHER -> <<"other", 0>>

\* doDownload, result handling: the guard on state_ == PAUSED, then the
\* branch on the result and, for OK, on the status code
resultPausedCheck ==
    /\ wpc = "exit_paused"
    /\ IF state = "PAUSED"
       THEN /\ wpc' = "set_cancelled"
            /\ UNCHANGED errMsg
       ELSE IF result = "OK" /\ httpCode < HttpErrorMin
            THEN /\ wpc' = "final_progress"
                 /\ UNCHANGED errMsg
            ELSE /\ wpc' = "set_error"
                 /\ errMsg' = ErrorOf(result, httpCode)
    /\ UNCHANGED <<state, flagVars, byteVars, sharedRest, pauseMutex,
                   resumeFrom, result, httpCode, transportVars, controlVars,
                   historyVars>>

setCancelled ==
    /\ wpc = "set_cancelled"
    /\ StoreState("CANCELLED")
    /\ wpc' = "notify_cancelled"
    /\ UNCHANGED <<flagVars, byteVars, sharedRest, pauseMutex, outcomeVars,
                   transportVars, controlVars, eventVars, monitorVars>>

\* variant: no return after notifyCancelled()
notifyCancelled_FallsThrough ==
    /\ wpc = "notify_cancelled"
    /\ Notify("cancelled")
    /\ wpc' = "exit_paused"
    /\ UNCHANGED <<state, flagVars, byteVars, sharedRest, pauseMutex,
                   outcomeVars, transportVars, controlVars, monitorVars,
                   lastTrans>>

notifyCancelled ==
    /\ wpc = "notify_cancelled"
    /\ Notify("cancelled")
    /\ wpc' = "done"
    /\ UNCHANGED <<state, flagVars, byteVars, sharedRest, pauseMutex,
                   outcomeVars, transportVars, controlVars, monitorVars,
                   lastTrans>>

\* variant: the error branch calls notifyError() without storing ERROR
setError_NoStore ==
    /\ wpc = "set_error"
    /\ wpc' = "notify_error"
    /\ UNCHANGED <<state, lastTrans, flagVars, byteVars, sharedRest,
                   pauseMutex, outcomeVars, transportVars, controlVars,
                   eventVars, monitorVars>>

setError ==
    /\ wpc = "set_error"
    /\ StoreState("ERROR")
    /\ wpc' = "notify_error"
    /\ UNCHANGED <<flagVars, byteVars, sharedRest, pauseMutex, outcomeVars,
                   transportVars, controlVars, eventVars, monitorVars>>

\* variant: no return after the notifyError() of a destination that cannot
\* be opened
notifyError_FallsThrough ==
    /\ wpc = "notify_error"
    /\ Notify("error")
    /\ wpc' = IF errMsg[1] = "open" THEN "factory" ELSE "done"
    /\ UNCHANGED <<state, flagVars, byteVars, sharedRest, pauseMutex,
                   outcomeVars, transportVars, controlVars, monitorVars,
                   lastTrans>>

notifyError ==
    /\ wpc = "notify_error"
    /\ Notify("error")
    /\ wpc' = "done"
    /\ UNCHANGED <<state, flagVars, byteVars, sharedRest, pauseMutex,
                   outcomeVars, transportVars, controlVars, monitorVars,
                   lastTrans>>

\* the final progress event at 100%
finalProgress ==
    /\ wpc = "final_progress"
    /\ NotifyProgress(100)
    /\ wpc' = "set_completed"
    /\ UNCHANGED <<state, flagVars, byteVars, sharedRest, pauseMutex,
                   outcomeVars, transportVars, controlVars, monitorVars,
                   lastTrans>>

\* variant: a completed attempt puts state_ back to IDLE
setCompleted_ToIdle ==
    /\ wpc = "set_completed"
    /\ StoreState("IDLE")
    /\ wpc' = "notify_completed"
    /\ UNCHANGED <<flagVars, byteVars, sharedRest, pauseMutex, outcomeVars,
                   transportVars, controlVars, eventVars, monitorVars>>

setCompleted ==
    /\ wpc = "set_completed"
    /\ StoreState("COMPLETED")
    /\ wpc' = "notify_completed"
    /\ UNCHANGED <<flagVars, byteVars, sharedRest, pauseMutex, outcomeVars,
                   transportVars, controlVars, eventVars, monitorVars>>

notifyCompleted ==
    /\ wpc = "notify_completed"
    /\ Notify("completed")
    /\ wpc' = "done"
    /\ UNCHANGED <<state, flagVars, byteVars, sharedRest, pauseMutex,
                   outcomeVars, transportVars, controlVars, monitorVars,
                   lastTrans>>

\* ------------------------------------------------------------------------
\* every step of the worker that is a step of the code
WorkerStep ==
    \/ doDownloadBegin \/ doDownloadOpen \/ doDownloadFactory
    \/ TransportProgress \/ TransportWrite \/ TransportReturn
    \/ progressCallbackCancel \/ progressCallbackUpdate
    \/ writeCallbackCancel \/ writeCallbackPause \/ writeCallbackWrite
    \/ waitIfPausedLock \/ waitIfPausedNotify
    \/ waitPredicatePause \/ waitPredicateCancel \/ waitBlock
    \/ waitReacquire \/ waitIfPausedCancel \/ waitIfPausedResumed
    \/ resultCancelCheck \/ resultPausedCheck
    \/ setCancelled \/ notifyCancelled
    \/ setError \/ notifyError
    \/ finalProgress \/ setCompleted \/ notifyCompleted

ControlStep(t) == startDownload(t) \/ pause(t) \/ resume(t) \/ cancel(t)

Next ==
    \/ WorkerStep
    \/ waitSpuriousWakeup
    \/ \E t \in Threads : ControlStep(t)

Spec == Init /\ [][Next]_vars

\* ------------------------------------------------------------------------
\* ~Downloader(): cancel(), then join of the worker thread if it is joinable.
\* The steps of cancel() are those of cancel(t); the destructor is not one
\* of the counted calls, and nothing is called once it has begun.
destructorStoreCancel(t) ==
    /\ cpc[t] = "idle"
    /\ cancelRequested' = TRUE
    /\ everCancel' = TRUE
    /\ cancelIssued' = (cancelIssued \/ state \in {"DOWNLOADING", "PAUSED"})
    /\ Goto(t, "dtor_pause")
    /\ UNCHANGED <<state, pauseRequested, downloadedBytes, totalBytes, url,
                   observers,
                   registryVars, stats,
                   pauseMutex, joinable, workerVars, startRet,
                   attempt, calls, eventVars, cancelAtReturn, lastTrans,
                   latePause, cycles, lateChunks,
                   performs>>

destructorStorePause(t) ==
    /\ cpc[t] = "dtor_pause"
    /\ pauseRequested' = FALSE
    /\ Goto(t, "dtor_lock")
    /\ UNCHANGED <<state, cancelRequested, downloadedBytes, totalBytes, url,
                   observers,
                   registryVars, stats,
                   pauseMutex, joinable, workerVars, startRet,
                   attempt, calls, historyVars>>

destructorLock(t) ==
    /\ cpc[t] = "dtor_lock"
    /\ pauseMutex = "free"
    /\ Goto(t, "dtor_notify")
    /\ UNCHANGED <<engineVars,
                   registryVars, stats, workerVars, startRet, attempt, calls,
                   historyVars>>

destructorNotify(t) ==
    /\ cpc[t] = "dtor_notify"
    /\ NotifyAll
    /\ Goto(t, "dtor_join")
    /\ UNCHANGED <<engineVars,
                   registryVars, stats,
                   resumeFrom, result, httpCode, errMsg, tLen,
                   tNow, tProg, dltotal, fileSize, startRet, attempt, calls,
                   historyVars>>

\* variant: the destructor returns without joining the worker thread
destructorJoin_NoJoin(t) ==
    /\ cpc[t] = "dtor_join"
    /\ Goto(t, "gone")
    /\ UNCHANGED <<engineVars,
                   registryVars, stats, workerVars, startRet, attempt, calls,
                   historyVars>>

\* workerThread_.join(): returns when the worker has exited
destructorJoin(t) ==
    /\ cpc[t] = "dtor_join"
    /\ IF joinable
       THEN /\ wpc = "done"
            /\ wpc' = "none"
            /\ joinable' = FALSE
       ELSE UNCHANGED <<wpc, joinable>>
    /\ Goto(t, "gone")
    /\ UNCHANGED <<state, pauseRequested, cancelRequested, downloadedBytes,
                   totalBytes, url, observers,
                   registryVars, stats, pauseMutex, resumeFrom, result,
                   httpCode, errMsg, transportVars, fileSize, startRet,
                   attempt, calls, historyVars>>

destructor(t) ==
    \/ destructorStoreCancel(t)
    \/ destructorStorePause(t)
    \/ destructorLock(t)
    \/ destructorNotify(t)
    \/ destructorJoin(t)

\* MockCurlHandle::perform, the call after the last chunk: the total handed
\* to the progress callback is the size of the whole resource, the resume
\* offset included
TransportProgressLast ==
    /\ wpc = "perform"
    /\ ~tProg
    /\ tNow = tLen
    /\ tProg' = TRUE
    /\ dltotal' = tLen + resumeFrom
    /\ wpc' = "prog_cancel"
    /\ UNCHANGED <<state, flagVars, byteVars, sharedRest, pauseMutex,
                   outcomeVars, tLen, tNow, controlVars, historyVars>>

\* ------------------------------------------------------------------------
\* One caller: the owner thread makes every call, one after the other; at
\* most n calls of startDownload() are accepted.
OwnerCalls(n) ==
    \/ startDownloadCheckWithin(Owner, n)
    \/ startDownloadJoin(Owner)
    \/ startDownloadReset(Owner)
    \/ startDownloadPause(Owner)
    \/ startDownloadCancel(Owner)
    \/ startDownloadLaunch(Owner)
    \/ pause(Owner)
    \/ resume(Owner)
    \/ cancel(Owner)

\* The owner starts again after an attempt has ended: the later attempts find
\* the destination file the earlier ones left.
RestartNext ==
    \/ WorkerStep
    \/ TransportProgressLast
    \/ waitSpuriousWakeup
    \/ OwnerCalls(1 + MaxRestarts)

RestartSpec == Init /\ [][RestartNext]_vars

\* The owner destroys the engine before or at some point of its first
\* attempt, or after it.  Its call in progress runs to its end and the worker
\* thread keeps running (the transport goes on invoking callbacks, or
\* returns).
TeardownStep == OwnerCalls(1) \/ destructor(Owner)

TeardownNext ==
    \/ WorkerStep
    \/ waitSpuriousWakeup
    \/ TeardownStep

TeardownContinue == cpc[Owner] \notin {"idle", "gone"} /\ TeardownStep

TeardownSpec ==
    /\ Init
    /\ [][TeardownNext]_vars
    /\ WF_vars(WorkerStep \/ TeardownContinue)

\* ------------------------------------------------------------------------
\* Faults raised by observers.  notifyXxx holds a lock_guard on
\* observerMutex_ and calls the observers in order; a callback that throws
\* ends the loop and the exception leaves notifyXxx, waitIfPaused (whose
\* unique_lock releases pauseMutex_) and doDownload.
ThrowPcs == {"prog_update", "wait_paused", "wait_resumed", "final_progress",
             "notify_completed", "notify_cancelled", "notify_error"}

\* positions inside a callback that the transport calls
CallbackPcs == {"prog_update", "wait_paused", "wait_resumed"}

EventAt(pc) ==
    CASE pc \in {"prog_update", "final_progress"} -> "progress"
      [] pc = "wait_paused" -> "paused"
      [] pc = "wait_resumed" -> "resumed"
      [] pc = "notify_completed" -> "completed"
      [] pc = "notify_cancelled" -> "cancelled"
      [] OTHER -> "error"

\* the notify loop at the worker's position reaches observer k, which throws
ThrowAt(k) ==
    /\ wpc \in ThrowPcs
    /\ k \in 1..Len(observers)
    /\ log' = Append(log, EventAt(wpc))
    /\ received' = [o \in Observers |->
                      IF \E i \in 1..k : observers[i] = o
                      THEN Append(received[o], EventAt(wpc))
                      ELSE received[o]]
    /\ totalBytes' = IF wpc = "prog_update" /\ dltotal > 0
                     THEN dltotal + (downloadedBytes - tNow)
                     ELSE totalBytes
    /\ percent' = CASE wpc = "prog_update" ->
                         PercentOf(downloadedBytes, totalBytes')
                    [] wpc = "final_progress" -> 100
                    [] OTHER -> percent
    /\ pauseMutex' = IF wpc \in {"wait_paused", "wait_resumed"} THEN "free"
                     ELSE pauseMutex

\* variant: the thread function has no handler and returns with the fault
workerThreadCatch_NoStore ==
    /\ \E k \in 1..Len(observers) : ThrowAt(k)
    /\ errMsg[1] # "exception"
    /\ errMsg' = <<"exception", 0>>
    /\ wpc' = "done"
    /\ UNCHANGED <<state, flagVars, downloadedBytes, fileSize, sharedRest,
                   resumeFrom, result, httpCode, transportVars, controlVars,
                   monitorVars, lastTrans>>

\* workerThread: the exception reaches the catch clauses, which store ERROR
\* and call notifyError (the two steps that follow)
workerThreadCatch ==
    /\ \E k \in 1..Len(observers) : ThrowAt(k)
    /\ errMsg[1] # "exception"
    /\ errMsg' = <<"exception", 0>>
    /\ wpc' = "set_error"
    /\ UNCHANGED <<state, flagVars, downloadedBytes, fileSize, sharedRest,
                   resumeFrom, result, httpCode, transportVars, controlVars,
                   monitorVars, lastTrans>>

\* The exception does not reach the catch clauses and the process ends
\* (std::terminate): it was thrown by the handler's own notifyError, or
\* inside a callback that CurlHandle's trampolines run under the C frames
\* of the transport, where unwinding is undefined.
workerThreadTerminate ==
    /\ \E k \in 1..Len(observers) : ThrowAt(k)
    /\ errMsg[1] = "exception" \/ wpc \in CallbackPcs
    /\ wpc' = "terminated"
    /\ cpc' = [t \in Threads |-> "gone"]
    /\ UNCHANGED <<state, flagVars, downloadedBytes, fileSize, sharedRest,
                   outcomeVars, transportVars, startRet, attempt, calls,
                   monitorVars, lastTrans>>

FaultNext ==
    \/ WorkerStep
    \/ waitSpuriousWakeup
    \/ workerThreadCatch
    \/ workerThreadTerminate
    \/ OwnerCalls(MaxAttempts)

FaultSpec == Init /\ [][FaultNext]_vars

\* ------------------------------------------------------------------------
\* getStats(): the three atomics are loaded one after the other, the
\* percentage is computed from the two loaded counters (a double in the
\* code, a whole percentage here), and url_ is copied under statsMutex_,
\* the lock under which startDownload stores it.
statsRest == <<state, flagVars, byteVars, url, observers, registryVars,
               joinable, pauseMutex, wpc, outcomeVars, transportVars,
               startRet, attempt, eventVars, monitorVars, lastTrans>>

getStatsState(t) ==
    /\ cpc[t] = "idle"
    /\ calls < MaxCalls
    /\ calls' = calls + 1
    /\ stats' = [stats EXCEPT ![t] = [NoStats EXCEPT !.state = state]]
    /\ Goto(t, "stats_downloaded")
    /\ UNCHANGED statsRest

getStatsDownloaded(t) ==
    /\ cpc[t] = "stats_downloaded"
    /\ stats' = [stats EXCEPT ![t].downloadedBytes = downloadedBytes]
    /\ Goto(t, "stats_total")
    /\ UNCHANGED <<statsRest, calls>>

\* variant: an unknown total is reported as 0 percent
getStatsTotal_ZeroPercent(t) ==
    /\ cpc[t] = "stats_total"
    /\ stats' = [stats EXCEPT
                   ![t].totalBytes = totalBytes,
                   ![t].percent =
                      IF totalBytes > 0
                      THEN PercentOf(stats[t].downloadedBytes, totalBytes)
                      ELSE 0]
    /\ Goto(t, "stats_url")
    /\ UNCHANGED <<statsRest, calls>>

getStatsTotal(t) ==
    /\ cpc[t] = "stats_total"
    /\ stats' = [stats EXCEPT
                   ![t].totalBytes = totalBytes,
                   ![t].percent =
                      IF totalBytes > 0
                      THEN PercentOf(stats[t].downloadedBytes, totalBytes)
                      ELSE -1]
    /\ Goto(t, "stats_url")
    /\ UNCHANGED <<statsRest, calls>>

getStatsUrl(t) ==
    /\ cpc[t] = "stats_url"
    /\ stats' = [stats EXCEPT ![t].url = url]
    /\ Goto(t, "idle")
    /\ UNCHANGED <<statsRest, calls>>

getStats(t) ==
    \/ getStatsState(t)
    \/ getStatsDownloaded(t)
    \/ getStatsTotal(t)
    \/ getStatsUrl(t)

\* The worker of an attempt that is neither paused nor cancelled
TransferStep ==
    \/ doDownloadBegin \/ doDownloadOpen \/ doDownloadFactory
    \/ TransportProgress \/ TransportWrite \/ TransportReturn
    \/ progressCallbackCancel \/ progressCallbackUpdate
    \/ writeCallbackCancel \/ writeCallbackPause \/ writeCallbackWrite
    \/ resultCancelCheck \/ resultPausedCheck
    \/ setError \/ notifyError
    \/ finalProgress \/ setCompleted \/ notifyCompleted

\* The owner starts one attempt after the other and makes no other call;
\* the other thread takes snapshots.  A snapshot reads state_, the two
\* counters and url_.
SnapshotNext ==
    \/ TransferStep
    \/ startDownloadCheckWithin(Owner, 1 + MaxRestarts)
    \/ startDownloadJoin(Owner)
    \/ startDownloadReset(Owner)
    \/ startDownloadPause(Owner)
    \/ startDownloadCancel(Owner)
    \/ startDownloadLaunch(Owner)
    \/ \E t \in Threads \ {Owner} : getStats(t)

SnapshotSpec == Init /\ [][SnapshotNext]_vars

\* ------------------------------------------------------------------------
\* One attempt on a body of up to 1 + MaxBody chunks, so that a chunk can
\* follow the one that is in the write callback when cancel() is called.
CancelNext ==
    \/ WorkerStep
    \/ doDownloadFactoryWithin(1 + MaxBody)
    \/ waitSpuriousWakeup
    \/ OwnerCalls(MaxAttempts)

CancelSpec == Init /\ [][CancelNext]_vars

\* ------------------------------------------------------------------------
\* Two control threads across a restart.  While the owner is inside
\* startDownload() no other call begins, so a control step taken during the
\* reset belongs to a call that began before the restart was accepted.
HandoverStep ==
    \/ WorkerStep
    \/ waitSpuriousWakeup
    \/ OwnerCalls(1 + MaxRestarts)
    \/ \E t \in Threads \ {Owner} : pause(t) \/ resume(t) \/ cancel(t)

HandoverNext ==
    /\ HandoverStep
    /\ cpc[Owner] \in StartPcs =>
          \A t \in Threads \ {Owner} : cpc[t] = "idle" => cpc'[t] = "idle"

HandoverSpec == Init /\ [][HandoverNext]_vars

\* ------------------------------------------------------------------------
\* Fair scheduling: the process is not halted.  While the worker thread can
\* run, or a control call that has begun has a step left, one of them takes
\* a step.  This is implied by weak fairness of each thread taken alone
\* (calls are finitely many and every call ends), so what holds under it
\* holds under per-thread fairness too.  Nothing obliges a caller to begin a
\* call, and a wait is not obliged to wake without a notification.
ControlContinue(t) == cpc[t] # "idle" /\ ControlStep(t)

\* the fair specification follows the engine through its first attempt; a
\* startDownload() that is rejected changes nothing but the value it
\* returns, which no step reads, and is left out
FairNext ==
    /\ Next
    /\ attempt' # attempt => state = "IDLE"
    /\ startRet' # "false"

FairSpec ==
    /\ Init
    /\ [][FairNext]_vars
    /\ WF_vars(WorkerStep \/ \E t \in Threads : ControlContinue(t))

\* ------------------------------------------------------------------------
\* The observer registry followed call by call.  addObserver() and
\* removeObserver() run whole under observerMutex_; a notify helper takes the
\* mutex, calls the observers one at a time and releases it.  Which event the
\* worker raises next is decided by doDownload (followed step by step in
\* Spec); here the worker may raise any event, the terminal one last.

\* stamp of the next registration: later than every registration in force
NextStamp ==
    LET stamps == {regHist[o].since : o \in Observers}
    IN 1 + CHOOSE m \in stamps : \A n \in stamps : n <= m

\* the record of an addObserver(o) call
RecordAdd(o) ==
    regHist' = [regHist EXCEPT ![o] =
        [since |-> IF o = NullObserver THEN 0
                   ELSE IF @.since > 0 THEN @.since ELSE NextStamp,
         adds |-> @.adds + 1,
         removes |-> @.removes,
         touched |-> @.touched \/ (joinable /\ o # NullObserver /\ @.since = 0)]]

\* the record of a removeObserver(o) call
RecordRemove(o) ==
    regHist' = [regHist EXCEPT ![o] =
        [since |-> 0,
         adds |-> @.adds,
         removes |-> @.removes + 1,
         touched |-> @.touched \/ (joinable /\ @.since > 0)]]

registryRest == <<state, pauseRequested, cancelRequested, downloadedBytes,
                  totalBytes, url, pauseMutex, joinable, workerVars, cpc,
                  startRet, attempt, historyVars, observerMutex, cursor,
                  served, stats>>

\* addObserver() that appends without looking the observer up
addObserver_NoFind(t, o) ==
    /\ cpc[t] = "idle"
    /\ calls < MaxRegistry
    /\ IF o = NullObserver
       THEN UNCHANGED observers
       ELSE /\ observerMutex = "free"
            /\ observers' = Append(observers, o)
    /\ RecordAdd(o)
    /\ calls' = calls + 1
    /\ UNCHANGED registryRest

\* addObserver(): a null pointer returns at once; under observerMutex_ the
\* observer is appended unless std::find meets it
addObserver(t, o) ==
    /\ cpc[t] = "idle"
    /\ calls < MaxRegistry
    /\ IF o = NullObserver
       THEN UNCHANGED observers
       ELSE /\ observerMutex = "free"
            /\ observers' = IF o \in Range(observers) THEN observers
                            ELSE Append(observers, o)
    /\ RecordAdd(o)
    /\ calls' = calls + 1
    /\ UNCHANGED registryRest

\* removeObserver() that erases nothing
removeObserver_NoErase(t, o) ==
    /\ cpc[t] = "idle"
    /\ calls < MaxRegistry
    /\ observerMutex = "free"
    /\ UNCHANGED observers
    /\ RecordRemove(o)
    /\ calls' = calls + 1
    /\ UNCHANGED registryRest

\* removeObserver(): under observerMutex_, erase every entry equal to o
removeObserver(t, o) ==
    /\ cpc[t] = "idle"
    /\ calls < MaxRegistry
    /\ observerMutex = "free"
    /\ observers' = SelectSeq(observers, LAMBDA x : x # o)
    /\ RecordRemove(o)
    /\ calls' = calls + 1
    /\ UNCHANGED registryRest

\* the state the worker stores before it raises the event
StateOf(ev) ==
    CASE ev = "paused" -> "PAUSED"
      [] ev = "completed" -> "COMPLETED"
      [] ev = "cancelled" -> "CANCELLED"
      [] ev = "error" -> "ERROR"
      [] OTHER -> "DOWNLOADING"

notifyRest == <<pauseRequested, cancelRequested, downloadedBytes, totalBytes,
                url, observers, pauseMutex, joinable, resumeFrom, result,
                httpCode, errMsg, tLen, tNow, tProg, dltotal, fileSize,
                controlVars, percent, cancelIssued, cancelAtReturn,
                everCancel, latePause, cycles, lateChunks, performs,
                regHist, stats>>

\* a notify helper that starts its loop without observerMutex_
notifyEnter_NoLock(ev) ==
    /\ wpc \in {"begin", "running"}
    /\ ev \in TerminalEvents \/ Len(log) < MaxEvents
    /\ StoreState(StateOf(ev))
    /\ log' = Append(log, ev)
    /\ cursor' = 1
    /\ served' = <<>>
    /\ wpc' = "notify_loop"
    /\ UNCHANGED <<notifyRest, received, observerMutex>>

\* notifyXxx(): std::lock_guard takes observerMutex_, the loop starts at
\* observers_.begin()
notifyEnter(ev) ==
    /\ wpc \in {"begin", "running"}
    /\ ev \in TerminalEvents \/ Len(log) < MaxEvents
    /\ observerMutex = "free"
    /\ observerMutex' = "worker"
    /\ StoreState(StateOf(ev))
    /\ log' = Append(log, ev)
    /\ cursor' = 1
    /\ served' = <<>>
    /\ wpc' = "notify_loop"
    /\ UNCHANGED <<notifyRest, received>>

\* one turn of the loop: obs->onXxx() for the observer under the cursor
notifyCall ==
    /\ wpc = "notify_loop"
    /\ cursor \in 1..Len(observers)
    /\ LET obs == observers[cursor] IN
         /\ received' = [o \in Observers |->
                           IF o = obs THEN Append(received[o], log[Len(log)])
                           ELSE received[o]]
         /\ served' = Append(served, obs)
    /\ cursor' = cursor + 1
    /\ UNCHANGED <<notifyRest, state, lastTrans, log, wpc, observerMutex>>

\* the loop reached observers_.end(): the lock_guard releases observerMutex_
notifyLeave ==
    /\ wpc = "notify_loop"
    /\ cursor > Len(observers)
    /\ cursor' = 0
    /\ observerMutex' = "free"
    /\ wpc' = IF log[Len(log)] \in TerminalEvents THEN "done" ELSE "running"
    /\ UNCHANGED <<notifyRest, state, lastTrans, log, received, served>>

RaisedEvents == {"progress", "paused", "resumed"} \cup TerminalEvents

RegistryCall(t) ==
    \E o \in Observers \cup {NullObserver} :
        addObserver(t, o) \/ removeObserver(t, o)

RegistryNext ==
    \/ startDownloadCheckWithin(Owner, 1)
    \/ startDownloadJoin(Owner)
    \/ startDownloadReset(Owner)
    \/ startDownloadPause(Owner)
    \/ startDownloadCancel(Owner)
    \/ startDownloadLaunch(Owner)
    \/ \E t \in Threads : RegistryCall(t)
    \/ \E ev \in RaisedEvents : notifyEnter(ev)
    \/ notifyCall
    \/ notifyLeave

RegistrySpec == Init /\ [][RegistryNext]_vars

\* ------------------------------------------------------------------------
\* positions of the worker inside waitIfPaused up to the return of the wait
WaitPcs == {"wait_lock", "wait_paused", "wait_pred_pause", "wait_pred_cancel",
            "wait_enter", "wait_blocked", "wait_woken"}
\* positions of the worker parked after paused() was delivered
ParkedPcs == {"wait_pred_pause", "wait_pred_cancel", "wait_enter",
              "wait_blocked", "wait_woken"}

\* C1: a cancel() issued after a successful start() and before the attempt is
\* terminal ends the attempt Cancelled, with exactly one cancelled() event
\* and no completed() event.
C1_CancelYieldsCancelled ==
    (wpc = "done" /\ cancelIssued) =>
        /\ state = "CANCELLED"
        /\ Count(log, "cancelled") = 1
        /\ Count(log, "completed") = 0

\* C2: the worker is never left parked in the pause wait while
\* pauseRequested is false, unless the notification of the call that cleared
\* the flag is still to come.
C2_NoLostWakeup ==
    (wpc = "wait_blocked" /\ ~pauseRequested) =>
        \E t \in Threads : cpc[t] \in {"resume_notify", "cancel_lock",
                                       "cancel_notify"}

C4_LatePauseCompletes ==
    (wpc = "done" /\ latePause /\ result = "OK" /\ httpCode < HttpErrorMin
        /\ ~everCancel) =>
        /\ state = "COMPLETED"
        /\ Count(log, "completed") = 1
        /\ Count(log, "cancelled") = 0
        /\ Count(log, "error") = 0

\* C5: every change of the lifecycle state is one of the transitions of the
\* table: start from Idle or a terminal state, pause, resume, and the
\* worker's Active -> Completed, Active/Paused -> Cancelled, Active -> Failed.
AllowedTransitions ==
    {<<"IDLE", "DOWNLOADING">>, <<"DOWNLOADING", "PAUSED">>,
     <<"PAUSED", "DOWNLOADING">>, <<"DOWNLOADING", "COMPLETED">>,
     <<"DOWNLOADING", "CANCELLED">>, <<"PAUSED", "CANCELLED">>,
     <<"DOWNLOADING", "ERROR">>}
        \cup {<<s, "DOWNLOADING">> : s \in Terminal}

C5_OnlyTableTransitions ==
    [][state' # state => <<state, state'>> \in AllowedTransitions]_vars

C7_PauseCycleEvents ==
    /\ (wpc = "done" /\ ~everCancel) =>
           /\ Count(log, "resumed") = cycles
           /\ Count(log, "paused") >= cycles
    /\ (wpc \in ParkedPcs /\ pauseRequested /\ ~everCancel
          /\ \A t \in Threads : cpc[t] # "resume_store") => state = "PAUSED"

\* C8: startDownload() called while the state is Active or Paused returns
\* false and changes nothing else: request, counters, flags, state, worker.
C8_StartRejected ==
    [][(cpc[Owner] = "idle" /\ state \in {"DOWNLOADING", "PAUSED"}
          /\ startDownload(Owner)) =>
            /\ startRet' = "false"
            /\ UNCHANGED <<engineVars, workerVars, cpc, attempt, log,
                           received>>]_vars

C8_Witness ==
    /\ startRet = "false"
    /\ state = "PAUSED"
    /\ wpc = "wait_blocked"
    /\ attempt = 1

\* C9: if cancelRequested is set when perform() has returned, the attempt
\* ends Cancelled with exactly one cancelled() event and no error() and no
\* completed() event, whatever the result and the status code.
C9_CancelAtReturn ==
    (wpc = "done" /\ cancelAtReturn) =>
        /\ state = "CANCELLED"
        /\ Count(log, "cancelled") = 1
        /\ Count(log, "error") = 0
        /\ Count(log, "completed") = 0

C9_Witness ==
    /\ wpc = "done"
    /\ cancelAtReturn
    /\ result = "NETWORK_ERROR"
    /\ state = "CANCELLED"

\* C10: with no cancel requested during the attempt, a perform() result
\* other than OK ends the attempt Failed with exactly one error() event and
\* no completed() or cancelled() event.
C10_FailureYieldsFailed ==
    (wpc = "done" /\ ~everCancel /\ result \in CurlResult \ {"OK"}) =>
        /\ state = "ERROR"
        /\ Count(log, "error") = 1
        /\ Count(log, "completed") = 0
        /\ Count(log, "cancelled") = 0

\* C11: with no cancel requested, a perform() result OK with an error-class
\* status code ends the attempt Failed with one error() event whose message
\* quotes the code and no completed() event; with a status code below 400 it
\* never ends Failed.
C11_HttpErrorYieldsFailed ==
    /\ (wpc = "done" /\ ~everCancel /\ result = "OK"
          /\ httpCode >= HttpErrorMin) =>
            /\ state = "ERROR"
            /\ Count(log, "error") = 1
            /\ errMsg = <<"http", httpCode>>
            /\ Count(log, "completed") = 0
    /\ (wpc = "done" /\ ~everCancel /\ result = "OK"
          /\ httpCode < HttpErrorMin) => state # "ERROR"

\* C12: with no cancel requested, a perform() result OK with a non-error
\* status code makes the worker raise a final progress event at 100 percent,
\* then store Completed, then raise completed(): one completed(), no error()
\* and no cancelled(), and the last event before completed() is that progress.
C12_SuccessYieldsCompleted ==
    /\ (wpc \in {"set_completed", "notify_completed"}) =>
            /\ Len(log) > 0
            /\ log[Len(log)] = "progress"
            /\ percent = 100
    /\ wpc = "notify_completed" => state = "COMPLETED"
    /\ (wpc = "done" /\ ~everCancel /\ result = "OK"
          /\ httpCode < HttpErrorMin) =>
            /\ state = "COMPLETED"
            /\ Count(log, "completed") = 1
            /\ Count(log, "error") = 0
            /\ Count(log, "cancelled") = 0
            /\ Len(log) >= 2
            /\ log[Len(log)] = "completed"
            /\ log[Len(log) - 1] = "progress"
            /\ percent = 100

\* C13: from the moment the worker has seeded it with the resume offset
\* until the attempt is terminal, bytesTransferred never decreases, and it
\* equals totalBytes when the attempt becomes Completed, also when the
\* attempt resumes from a non-empty destination file.
C13_BytesMonotoneTotalAtCompleted ==
    [][/\ wpc \notin {"none", "begin", "done"} =>
             downloadedBytes' >= downloadedBytes
       /\ (state # "COMPLETED" /\ state' = "COMPLETED") =>
             downloadedBytes' = totalBytes']_vars

AfterJoinPcs == {"start_reset", "start_pause", "start_cancel", "start_launch"}

\* C15: at most one worker is active: while an accepted startDownload()
\* resets the counters and the flags and launches the new worker, the worker
\* of the previous attempt has exited, its terminal event delivered.
C15_OneWorkerAtATime ==
    /\ cpc[Owner] \in AfterJoinPcs =>
          /\ wpc = "none"
          /\ ~joinable
          /\ attempt > 1 =>
                /\ Len(log) > 0
                /\ log[Len(log)] \in TerminalEvents
                /\ \A o \in Range(observers) : received[o] = log
    /\ wpc \notin {"none"} => joinable

C15_Witness ==
    /\ cpc[Owner] = "start_launch"
    /\ attempt = 2
    /\ wpc = "none"
    /\ state = "COMPLETED"
    /\ log[Len(log)] = "completed"

\* C16: the destructor requests cancel and returns only when the worker
\* thread has exited, and once begun it does return, from Idle, from a
\* running or paused attempt (the worker parked in the pause wait included)
\* and from a terminal state.
C16_DestructorTerminates ==
    /\ [](cpc[Owner] = "gone" =>
            (cancelRequested /\ wpc = "none" /\ ~joinable))
    /\ (cpc[Owner] \in {"dtor_pause", "dtor_lock", "dtor_notify", "dtor_join"})
            ~> (cpc[Owner] = "gone")

C16_Witness ==
    /\ cpc[Owner] = "gone"
    /\ state = "CANCELLED"
    /\ Count(log, "paused") = 1
    /\ Count(log, "resumed") = 0
    /\ Count(log, "cancelled") = 1

\* observers registered, or not registered, without a change since the
\* worker of the attempt was launched
KeptSinceLaunch == {o \in Observers : regHist[o].since > 0 /\ ~regHist[o].touched}
OutSinceLaunch == {o \in Observers : regHist[o].since = 0 /\ ~regHist[o].touched}

\* C17: addObserver() is idempotent: however often an observer is
\* registered the registry holds it once, so every raised event reaches it
\* once and never more often than it was raised; addObserver(nullptr)
\* changes nothing.
C17_AddIdempotent ==
    /\ [](/\ NullObserver \notin Range(observers)
          /\ \A o \in Observers :
                /\ regHist[o].since > 0 => Count(observers, o) = 1
                /\ \A ev \in RaisedEvents :
                      Count(received[o], ev) <= Count(log, ev)
                /\ (o \in KeptSinceLaunch /\ cursor = 0) =>
                      \A ev \in RaisedEvents :
                          Count(received[o], ev) = Count(log, ev))
    /\ [][(\E t \in Threads : addObserver(t, NullObserver)) =>
              UNCHANGED <<observers, eventVars>>]_vars

\* three registrations of o1 and one of the null pointer, the attempt over:
\* o1 got completed() once
C17_Witness ==
    /\ regHist["o1"].adds = 3
    /\ regHist[NullObserver].adds = 1
    /\ regHist["o1"].removes = 0
    /\ observers = <<"o1", "o2">>
    /\ wpc = "done"
    /\ Count(log, "completed") = 1
    /\ Count(received["o1"], "completed") = 1

\* C18: an observer removed before startDownload() and not registered again
\* receives no event of the attempt, while the observers that stay
\* registered receive every event; removeObserver() of an observer that is
\* not registered leaves the registry as it is.
C18_RemovedReceivesNothing ==
    /\ [](/\ \A o \in OutSinceLaunch :
                received[o] = <<>> /\ o \notin Range(served)
          /\ cursor = 0 => \A o \in KeptSinceLaunch : received[o] = log)
    /\ [][\A o \in Observers \cup {NullObserver} :
              ((\E t \in Threads : removeObserver(t, o)) /\ regHist[o].since = 0)
                 => UNCHANGED <<observers, eventVars>>]_vars

\* o1 was removed before the launch, then removed once more; the attempt
\* raised progress and completed(): o2 got both, o1 none
C18_Witness ==
    /\ regHist["o1"].removes = 2
    /\ regHist["o1"].adds = 1
    /\ "o1" \in OutSinceLaunch
    /\ "o2" \in KeptSinceLaunch
    /\ wpc = "done"
    /\ log = <<"progress", "completed">>
    /\ received["o1"] = <<>>
    /\ received["o2"] = log

\* the observers are held in the order of their registrations
InRegistrationOrder(s) ==
    \A i \in 1..Len(s) : \A j \in 1..Len(s) :
        i < j => regHist[s[i]].since < regHist[s[j]].since

\* C19: a notify helper holds observerMutex_ from before the first observer
\* is called until after the last: the registry does not change while an
\* event is being delivered, the observers are called in the order of their
\* registrations, and when the delivery ends every observer registered at
\* that moment was called once.
C19_DeliveryUnderLock ==
    /\ [](cursor > 0 =>
            /\ observerMutex = "worker"
            /\ served = SubSeq(observers, 1, cursor - 1)
            /\ InRegistrationOrder(observers))
    /\ [][/\ cursor > 0 => observers' = observers
          /\ (cursor > 0 /\ cursor' = 0) => served = observers]_vars

\* o1 was removed and registered again while the attempt ran, between two
\* deliveries: it got one of the two events whole, and the second delivery
\* called o2 before o1
C19_Witness ==
    /\ cursor = 3
    /\ observers = <<"o2", "o1">>
    /\ served = <<"o2", "o1">>
    /\ regHist["o1"].touched
    /\ regHist["o1"].removes = 1
    /\ regHist["o1"].adds = 2
    /\ log = <<"progress", "completed">>
    /\ received["o1"] = <<"completed">>
    /\ received["o2"] = log

\* a step of pause(), resume() or cancel() taken while the state is Idle
IdleCallStep ==
    /\ state = "IDLE"
    /\ \E t \in Threads : pause(t) \/ resume(t) \/ cancel(t)

C21_PauseCompareAndSwap ==
    [][/\ \A t \in Threads :
            pauseCas(t) =>
               IF state = "DOWNLOADING"
               THEN state' = "PAUSED" /\ cpc'[t] = "pause_store"
               ELSE /\ state' = state
                    /\ pauseRequested' = pauseRequested
                    /\ cpc'[t] = "idle"
       /\ (~pauseRequested /\ pauseRequested') =>
            \E t \in Threads :
                cpc[t] = "pause_store" /\ cpc'[t] = "idle"
       /\ \A t \in Threads :
            (cpc[t] # "pause_store" /\ cpc'[t] = "pause_store") =>
                /\ state = "DOWNLOADING" /\ state' = "PAUSED"
                /\ \A u \in Threads \ {t} : cpc'[u] = cpc[u]]_vars

\* one pause() has won the compare-and-swap and has not stored the flag
\* yet; the other call made so far changed nothing
C21_Witness ==
    /\ \E t \in Threads : cpc[t] = "pause_store"
    /\ state = "PAUSED"
    /\ ~pauseRequested
    /\ calls = 2
    /\ cycles = 0
    /\ ~everCancel
    /\ lastTrans = <<"DOWNLOADING", "PAUSED">>

\* C22: cancel() stores cancelRequested_ = true and pauseRequested_ = false
\* whatever the state is and never writes state_; a cancel() made when both
\* flags already have these values changes no flag, no counter and no
\* event, and however many cancel() calls are made the attempt raises
\* cancelled() at most once.
C22_CancelIdempotent ==
    /\ [](Count(log, "cancelled") <= 1)
    /\ [][\A t \in Threads :
            /\ cancel(t) => state' = state /\ UNCHANGED eventVars
            /\ cancelStoreCancel(t) => cancelRequested'
            /\ cancelStorePause(t) => ~pauseRequested'
            /\ (cancel(t) /\ cancelRequested /\ ~pauseRequested) =>
                  UNCHANGED <<flagVars, byteVars, state, eventVars, result,
                              pauseMutex>>]_vars

\* two cancel() calls overlap in one attempt: the attempt ended CANCELLED
\* with one cancelled() event
C22_Witness ==
    /\ \A t \in Threads : cpc[t] = "cancel_notify"
    /\ cancelRequested
    /\ ~pauseRequested
    /\ wpc = "done"
    /\ state = "CANCELLED"
    /\ Count(log, "cancelled") = 1
    /\ attempt = 1

\* positions of the worker from the open of the destination file to its exit
OpenedPcs == {"factory", "perform", "prog_cancel", "prog_update",
              "write_cancel", "write_pause", "write_file"} \cup WaitPcs
             \cup {"wait_cancel", "wait_resumed", "exit_cancel",
                   "exit_paused", "final_progress", "set_completed",
                   "notify_completed", "set_cancelled", "notify_cancelled"}

C24_RestartClean ==
    [][startDownloadLaunch(Owner) =>
          /\ url = attempt
          /\ downloadedBytes = 0
          /\ totalBytes = 0
          /\ ~pauseRequested
          /\ ~cancelRequested
          /\ state' = "DOWNLOADING"
          /\ startRet' = "true"]_vars

\* C25: a worker that has exited has left state_ terminal, on every path:
\* the sink that cannot be opened, the handle that cannot be created, a
\* fault raised inside the body by an observer.  A fault that reaches the
\* handler of workerThread is mapped to ERROR and one error event: the
\* handler stores ERROR, raises nothing else, and the worker exits on the
\* error event with state_ ERROR.
C25_ExitIsTerminal ==
    /\ [](/\ wpc = "done" => state \in Terminal
          /\ (wpc = "done" /\ errMsg[1] \in {"open", "factory", "exception"}) =>
                /\ state = "ERROR"
                /\ log # <<>> /\ log[Len(log)] = "error"
          /\ (wpc = "notify_error" /\ errMsg[1] = "exception") =>
                state = "ERROR")
    /\ [][(errMsg[1] = "exception" /\ wpc \in {"set_error", "notify_error"}) =>
             /\ wpc = "set_error" =>
                   log' = log /\ wpc' \in {wpc, "notify_error"}
             /\ wpc = "notify_error" =>
                   wpc' \in {wpc, "done", "terminated"}
             /\ (wpc = "notify_error" /\ wpc' = "done") =>
                   log' = Append(log, "error")]_vars

\* an observer threw while the attempt was paused; the worker has exited
\* through the handler
C25_Witness ==
    /\ wpc = "done"
    /\ errMsg[1] = "exception"
    /\ state = "ERROR"
    /\ lastTrans = <<"PAUSED", "ERROR">>
    /\ Count(log, "paused") = 1
    /\ Count(log, "error") = 1
    /\ pauseMutex = "free"

\* C26: the DownloadStats that getStats() returns has percent -1 when its
\* totalBytes is 0 and 100 * downloadedBytes / totalBytes of its own two
\* counters otherwise; its state is the value of state_ the call loaded;
\* its url is the one stored by the latest accepted startDownload() that
\* has returned.  A call made after an attempt has completed returns
\* COMPLETED and the url of that attempt.
C26_SnapshotValues ==
    /\ [](\A t \in Threads : cpc[t] \in {"idle", "stats_url"} =>
             stats[t].percent =
                IF stats[t].totalBytes = 0
                THEN (IF stats[t] = NoStats THEN 0 ELSE -1)
                ELSE (100 * stats[t].downloadedBytes) \div stats[t].totalBytes)
    /\ [][\A t \in Threads :
             /\ getStatsState(t) =>
                   /\ stats'[t].state = state
                   /\ (state = "COMPLETED" /\ wpc = "done") =>
                         stats'[t].state = "COMPLETED"
             /\ getStatsDownloaded(t) =>
                   stats'[t].downloadedBytes = downloadedBytes
             /\ getStatsTotal(t) => stats'[t].totalBytes = totalBytes
             /\ getStatsUrl(t) =>
                   /\ stats'[t].url = url
                   /\ StartReturned => stats'[t].url = attempt
                   /\ (stats[t].state = "COMPLETED" /\ state = "COMPLETED"
                          /\ StartReturned) =>
                         /\ stats'[t].state = "COMPLETED"
                         /\ stats'[t].url = attempt]_vars

\* a snapshot taken after the second attempt completed: COMPLETED, the url
\* of that attempt, both counters and their percentage
C26_Witness ==
    /\ cpc["t2"] = "idle"
    /\ stats["t2"].state = "COMPLETED"
    /\ stats["t2"].url = 2
    /\ attempt = 2
    /\ stats["t2"].totalBytes = 2
    /\ stats["t2"].downloadedBytes = 2
    /\ stats["t2"].percent = 100
    /\ wpc = "done"

\* C27: cancelRequested_ is set from the store of cancel() until
\* startDownload() resets it: the only step that writes false to it is the
\* reset of an accepted startDownload(), taken when no worker exists; no
\* step of pause(), of resume() or of the worker clears it.
C27_CancelFlagSticky ==
    /\ [](everCancel => cancelRequested)
    /\ [][(cancelRequested /\ ~cancelRequested') =>
             /\ startDownloadCancel(Owner)
             /\ wpc = "none"
             /\ attempt > 0]_vars

\* cancel() set the flag and a pause() stored its own flag after that; the
\* attempt has ended and the flag is still set
C27_Witness ==
    /\ cancelRequested
    /\ pauseRequested
    /\ everCancel
    /\ \A t \in Threads : cpc[t] = "idle"
    /\ wpc = "done"
    /\ state = "CANCELLED"
    /\ calls = 2

\* positions of the worker inside the write callback
WriteCallbackPcs == {"write_cancel", "write_pause", "write_file"}
                       \cup WaitPcs \cup {"wait_cancel", "wait_resumed"}

C29_CancelAtNextCallback ==
    /\ [](/\ lateChunks <= 1
          /\ everCancel => cancelRequested)
    /\ [][/\ (wpc = "write_cancel" /\ cancelRequested) =>
                /\ wpc' \in {wpc, "exit_cancel"}
                /\ wpc' = "exit_cancel" => result' = "ABORTED_BY_CALLBACK"
                /\ UNCHANGED <<byteVars, tNow, eventVars>>
          /\ (wpc = "prog_cancel" /\ cancelRequested) =>
                /\ wpc' \in {wpc, "exit_cancel"}
                /\ wpc' = "exit_cancel" => result' = "ABORTED_BY_CALLBACK"
                /\ UNCHANGED <<byteVars, tNow, eventVars>>
          /\ (wpc = "exit_cancel" /\ result = "ABORTED_BY_CALLBACK") =>
                wpc' \notin {"perform", "write_cancel", "prog_cancel"}]_vars

\* cancel() was called while the first of two chunks was in the write
\* callback, past its check: that chunk was written, the second was not
C29_Witness ==
    /\ lateChunks = 1
    /\ tLen = 2
    /\ fileSize = 1
    /\ downloadedBytes = 1
    /\ state = "CANCELLED"
    /\ wpc = "done"
    /\ cpc[Owner] = "idle"

\* C30: the progress callback that finds no cancel stores
\* dltotal + (downloadedBytes_ - dlnow) in totalBytes_ when dltotal > 0 and
\* leaves totalBytes_ as it is when dltotal = 0; when the transport reports
\* the remaining length of a resumed request, the stored total is the resume
\* offset plus that length.  The progress event is raised with the counter
\* and the total as they are after the store, and their percentage.
C30_ProgressTotal ==
    [][(wpc = "prog_update" /\ wpc' # wpc) =>
          /\ wpc' = "perform"
          /\ totalBytes' = IF dltotal > 0
                           THEN dltotal + (downloadedBytes - tNow)
                           ELSE totalBytes
          /\ (dltotal > 0 /\ dltotal = tLen) =>
                totalBytes' = resumeFrom + tLen
          /\ downloadedBytes' = downloadedBytes
          /\ log' = Append(log, "progress")
          /\ percent' = IF totalBytes' > 0
                        THEN (100 * downloadedBytes) \div totalBytes'
                        ELSE -1]_vars

\* a resumed attempt: the file held one chunk, the transport reported the
\* one remaining chunk, and the total stored is two
C30_Witness ==
    /\ attempt = 2
    /\ resumeFrom = 1
    /\ tLen = 1
    /\ dltotal = 1
    /\ tNow = 0
    /\ totalBytes = 2
    /\ downloadedBytes = 1
    /\ percent = 50
    /\ wpc = "perform"
    /\ log # <<>> /\ log[Len(log)] = "progress"

\* C31: an attempt whose destination cannot be opened, or whose factory
\* yields no handle, ends in ERROR with the error event as its only event,
\* and perform() is never called in it: no handle was configured, the
\* transport sent nothing and returned no result.
C31_NoTransportOnEarlyFailure ==
    /\ [](errMsg[1] \in {"open", "factory"} =>
             /\ wpc \in {"set_error", "notify_error", "done", "none"}
             /\ performs = 0
             /\ result = NoResult
             /\ wpc \in {"set_error", "notify_error"} => log = <<>>
             /\ wpc = "done" => state = "ERROR" /\ log = <<"error">>)
    /\ [][(wpc = "open" /\ wpc' = "set_error") =>
             /\ errMsg'[1] = "open"
             /\ fileSize' = fileSize]_vars

\* the destination could not be opened; the worker has exited
C31_Witness ==
    /\ wpc = "done"
    /\ errMsg[1] = "open"
    /\ state = "ERROR"
    /\ log = <<"error">>
    /\ performs = 0
    /\ \A o \in Observers : received[o] = <<"error">>

\* C32: the worker stores CANCELLED and raises the cancelled event only in
\* an attempt in which cancel() or the destructor has set cancelRequested_:
\* calls of pause() and resume() alone never end an attempt CANCELLED.
C32_CancelledOnlyByCancel ==
    [][/\ (wpc = "set_cancelled" /\ state' = "CANCELLED") => cancelRequested
       /\ Count(log', "cancelled") > Count(log, "cancelled") =>
             cancelRequested]_vars

\* positions of the worker inside curl->perform()
PerformPcs == {"perform", "prog_cancel", "prog_update"} \cup WriteCallbackPcs

\* C33: whenever no call of pause(), resume() or cancel() is running and
\* the worker is inside perform(), pauseRequested_ set implies state_
\* PAUSED, so that the resume() that follows wins its compare-exchange and
\* releases the worker parked in waitIfPaused; also when pause() and
\* resume() run at the same time on two threads.
C33_PauseFlagImpliesPaused ==
    ((\A t \in Threads : cpc[t] = "idle") /\ wpc \in PerformPcs
        /\ pauseRequested)
    => state = "PAUSED"

\* C34: the worker stores the terminal state before it calls the matching
\* notify function, and state_ keeps that value for the whole of the
\* delivery: an observer that reads getState() inside onCompleted(),
\* onCancelled() or onError() reads COMPLETED, CANCELLED or ERROR.
C34_StateBeforeTerminalEvent ==
    /\ [](/\ wpc = "notify_completed" => state = "COMPLETED"
          /\ wpc = "notify_cancelled" => state = "CANCELLED"
          /\ wpc = "notify_error" => state = "ERROR")
    /\ [][\A ev \in TerminalEvents :
             Count(log', ev) > Count(log, ev) =>
                /\ wpc = "notify_" \o ev
                /\ state = StateOf(ev)
                /\ state' = StateOf(ev)]_vars

\* the next startDownload() has been accepted and waits in join() while the
\* cancelled event of the attempt is still to be delivered
C34_Witness ==
    /\ wpc = "notify_cancelled"
    /\ state = "CANCELLED"
    /\ cpc[Owner] = "start_join"
    /\ attempt = 2
    /\ Count(log, "cancelled") = 0

C37_AttemptsDoNotInterleave ==
    [][/\ (cpc[Owner] = "start_launch" /\ cpc'[Owner] = "idle"
              /\ attempt > 1) =>
             /\ wpc = "none"
             /\ log # <<>> /\ log[Len(log)] \in TerminalEvents
             /\ \A o \in Range(observers) : received[o] = log
             /\ log' = <<>>
             /\ \A o \in Observers : received'[o] = <<>>
       /\ (log' # log /\ log' # <<>>) =>
             /\ wpc \notin {"none", "done"}
             /\ cpc[Owner] \notin AfterJoinPcs
             /\ log = <<>> \/ log[Len(log)] \notin TerminalEvents]_vars

\* the second attempt has delivered its first event; the first attempt had
\* been cancelled
C37_Witness ==
    /\ attempt = 2
    /\ startRet = "true"
    /\ cpc[Owner] = "idle"
    /\ log = <<"progress">>
    /\ \A o \in Observers : received[o] = <<"progress">>
    /\ resumeFrom = 1
    /\ wpc = "perform"

\* C38: state_ is IDLE from construction until the first accepted
\* startDownload() stores DOWNLOADING, and never again: no step takes
\* state_ back to IDLE.  While it is IDLE no worker exists and no event has
\* been raised.  The step in which startDownload() returns true leaves
\* state_ DOWNLOADING, and from then on it is DOWNLOADING, PAUSED or
\* terminal.
C38_IdleUntilFirstStart ==
    /\ [](/\ state = "IDLE" <=>
                (attempt = 0 \/ (attempt = 1 /\ cpc[Owner] \in StartPcs))
          /\ state = "IDLE" => (wpc = "none" /\ log = <<>> /\ ~joinable)
          /\ startRet = "true" =>
                state \in {"DOWNLOADING", "PAUSED"} \cup Terminal)
    /\ [][/\ state' = "IDLE" => state = "IDLE"
          /\ (startRet' = "true" /\ cpc[Owner] = "start_launch"
                 /\ cpc'[Owner] = "idle") => state' = "DOWNLOADING"]_vars

\* startDownload() has returned true and a pause() has already won: the
\* worker has not yet taken a step and state_ is PAUSED
C38_Witness ==
    /\ startRet = "true"
    /\ attempt = 1
    /\ wpc = "begin"
    /\ state = "PAUSED"
    /\ pauseRequested
    /\ \A t \in Threads : cpc[t] = "idle"

\* ---- cancel() under a fair scheduler ----
\* positions of a control thread inside cancel()
CancelPcs == {"cancel_pause", "cancel_lock", "cancel_notify"}

\* the thread that calls cancel() while the owner starts, pauses and resumes
Canceller == CHOOSE t \in Threads : t # Owner

\* the first attempt, with cancel() called by the canceller and by no other
\* thread, and the canceller making no other call
CallFairNext ==
    /\ FairNext
    /\ \A t \in Threads : cpc'[t] \in CancelPcs <=> (t = Canceller /\ cpc'[t] # "idle")

\* The worker and each control thread run on threads of their own: a step
\* that stays possible is taken, and a control thread that finds pauseMutex_
\* free again and again gets it in the end.
CallFairSpec ==
    /\ Init
    /\ [][CallFairNext]_vars
    /\ WF_vars(WorkerStep)
    /\ WF_vars(ControlContinue(Owner))
    /\ SF_vars(ControlContinue(Canceller))

\* positions at which the worker owns pauseMutex_: inside waitIfPaused, from
\* its lock to the block of the wait and from the wake-up to its return
HoldingPcs == {"wait_paused", "wait_pred_pause", "wait_pred_cancel",
               "wait_enter", "wait_cancel", "wait_resumed"}

\* C39: cancel() does not wait for the worker to exit.  Its only step that
\* can wait is the lock of pauseMutex_; the worker owns that mutex only
\* inside waitIfPaused around the delivery of paused and resumed (with the
\* evaluation of the wait predicate), never while it is blocked in the wait
\* and never in perform() outside waitIfPaused; so a cancel() that has
\* begun always returns, wherever the worker is.
C39_CancelReturns ==
    /\ [](/\ pauseMutex = "worker" <=> wpc \in HoldingPcs
          /\ \A t \in Threads :
                (cpc[t] \in CancelPcs
                    /\ (cpc[t] = "cancel_lock" => pauseMutex = "free"))
                => ENABLED cancel(t))
    /\ (cpc[Canceller] \in CancelPcs) ~> (cpc[Canceller] = "idle")

\* cancel() has returned while the worker it woke from the wait has not yet
\* taken pauseMutex_ again
C39_Witness ==
    /\ \A t \in Threads : cpc[t] = "idle"
    /\ cancelRequested
    /\ everCancel
    /\ wpc = "wait_woken"
    /\ pauseMutex = "free"
    /\ state = "PAUSED"
    /\ Count(log, "paused") = 1

====
